---- MODULE Spec2Model ----
(***************************************************************************)
(* Model of `go` / `goSync` of @api3/promise-utils (src/src/index.ts,      *)
(* lines 1-211, the variant with cancellable timers and onAttemptError).   *)
(*                                                                         *)
(* One invocation of `go` is modelled on a JavaScript event loop: an       *)
(* action is the code that runs between two suspension points (`await`)    *)
(* of the async functions, timers fire only when no continuation is        *)
(* pending (micro-tasks drain before the next timer), and the clock        *)
(* advances only when no timer is due.                                     *)
(*                                                                         *)
(* Spec explores go with an operation that throws strings and rejects      *)
(* with Error instances and an observer that returns; SpecAnyThrow adds    *)
(* thrown Symbols and a throwing observer, SpecObserver an async observer, *)
(* SpecArray arrays of attempt timeouts, SpecFair a fair event loop, and   *)
(* SpecPair a second invocation running concurrently.  SpecSync applies    *)
(* goSync to operations returning or throwing any of the JSValues, and     *)
(* SpecApi applies success, fail and the two assertions.                   *)
(***************************************************************************)
EXTENDS Integers, Sequences, FiniteSets

\* ------------------------------------------------------------------------
\* Bounds of the explored inputs
\* ------------------------------------------------------------------------
MaxRetries == 2
MaxAttemptTimeoutMs == 1
MaxTotalTimeoutMs == 2
MaxOpMs == 1
MaxDelayMs == 1
MaxObserverMs == 2
MaxNum == 20

\* ------------------------------------------------------------------------
\* JavaScript values
\* ------------------------------------------------------------------------
Undefined == [t |-> "undefined"]
Null == [t |-> "null"]
Num(n) == [t |-> "num", v |-> n]
Str(s) == [t |-> "str", s |-> s]
Arr(a) == [t |-> "arr", a |-> a]
NewError(m) == [t |-> "Error", message |-> m]
\* a value that has no string conversion, such as Symbol()
Symbol == [t |-> "symbol"]

\* an evaluation that ends by throwing e instead of producing a value
Throw(e) == [threw |-> e]
IsThrow(r) == "threw" \in DOMAIN r

\* `value ? a : b`, `a || b`: undefined, null, 0 and '' are falsy
Truthy(x) ==
  CASE x.t = "undefined" -> FALSE
    [] x.t = "null" -> FALSE
    [] x.t = "num" -> x.v # 0
    [] x.t = "str" -> x.s # ""
    [] OTHER -> TRUE

InstanceOfError(x) == x.t \in {"Error", "GoWrappedError"}

DigitStr(n) ==
  CASE n = 0 -> "0" [] n = 1 -> "1" [] n = 2 -> "2" [] n = 3 -> "3"
    [] n = 4 -> "4" [] n = 5 -> "5" [] n = 6 -> "6" [] n = 7 -> "7"
    [] n = 8 -> "8" [] OTHER -> "9"

RECURSIVE NatStr(_)
NatStr(n) == IF n < 10 THEN DigitStr(n) ELSE NatStr(n \div 10) \o DigitStr(n % 10)

\* '' + reason, which throws a TypeError for a Symbol
StringOf(x) ==
  CASE x.t = "str" -> x.s
    [] x.t = "num" -> IF x.v < 0 THEN "-" \o NatStr(0 - x.v) ELSE NatStr(x.v)
    [] x.t = "undefined" -> "undefined"
    [] x.t = "null" -> "null"
    [] x.t = "arr" -> ""
    [] x.t = "symbol" -> Throw(NewError("Cannot convert a Symbol value to a string"))
    [] OTHER -> "Error: " \o x.message

\* new GoWrappedError(reason): super('' + reason), then this.reason = reason
GoWrappedError(reason) ==
  IF reason.t = "symbol" THEN StringOf(reason)
  ELSE [t |-> "GoWrappedError", message |-> StringOf(reason), reason |-> reason]

\* mutant: data: value || undefined
success_DropsFalsy(value) ==
  [success |-> TRUE, data |-> IF Truthy(value) THEN value ELSE Undefined, error |-> Undefined]

success(value) == [success |-> TRUE, data |-> value, error |-> Undefined]

\* mutant: the error is also stored as data
fail_KeepsData(err) == [success |-> FALSE, data |-> err, error |-> err]

fail(err) == [success |-> FALSE, data |-> Undefined, error |-> err]

\* a failure Result, unless the constructor of GoWrappedError throws
createGoError(err) ==
  IF InstanceOfError(err) THEN fail(err)
  ELSE LET wrapped == GoWrappedError(err)
       IN IF IsThrow(wrapped) THEN wrapped ELSE fail(wrapped)

\* a synchronous operation: it returns v or throws v
Returns(v) == [kind |-> "returns", v |-> v]
Throws(v) == [kind |-> "throws", v |-> v]

\* goSync(fn): try { return success(fn()) } catch (err) { return createGoError(err) }
goSync(fn) == IF fn.kind = "returns" THEN success(fn.v) ELSE createGoError(fn.v)

\* ------------------------------------------------------------------------
\* Inputs: the options object and the behaviour of the wrapped operation
\* ------------------------------------------------------------------------
NoDelay == [type |-> "none"]
StaticDelay(ms) == [type |-> "static", delayMs |-> ms]
RandomDelay(lo, hi) == [type |-> "random", minDelayMs |-> lo, maxDelayMs |-> hi]

RetriesDomain == {Undefined} \cup {Num(n) : n \in (0 - 1)..MaxRetries}
\* timeouts: omitted, 0 ms, or the longest one explored
AttemptTimeoutDomain == {Undefined, Num(0), Num(MaxAttemptTimeoutMs)}
TotalTimeoutDomain == {Undefined, Num(0), Num(MaxTotalTimeoutMs)}
\* delays: omitted, the longest one, or a random one below it
DelayDomain == {NoDelay, StaticDelay(MaxDelayMs), RandomDelay(0, MaxDelayMs)}

\* GoAsyncOptions; `present = FALSE` is a call of go(fn) without options
GoAsyncOptions ==
  [present : {TRUE}, retries : RetriesDomain, attemptTimeoutMs : AttemptTimeoutDomain,
   totalTimeoutMs : TotalTimeoutDomain, delay : DelayDomain, onAttemptError : BOOLEAN]

NoOptions ==
  [present |-> FALSE, retries |-> Undefined, attemptTimeoutMs |-> Undefined,
   totalTimeoutMs |-> Undefined, delay |-> NoDelay, onAttemptError |-> FALSE]

\* What one invocation of fn does: throw synchronously ("throw"), return a
\* promise that is already resolved or rejected, one that settles from a
\* timer after ms milliseconds ("after"), or one that never settles.
OpBehaviours ==
  [kind : {"throw", "never", "resolved", "rejected"}, ms : {0}]
    \cup [kind : {"after"}, ms : {0, MaxOpMs}]

\* What the operation throws when it throws synchronously: a plain string,
\* or a Symbol
ThrownKinds == {"string", "symbol"}

\* What onAttemptError does when called: return, throw a string, throw a
\* Symbol, or (an async function) return a promise that settles
\* MaxObserverMs later
ObserverKinds == {"returns", "throws", "throwsSymbol", "async"}

\* The operations goSync is applied to: any value returned or thrown
Primitives ==
  {Undefined, Null, Symbol} \cup {Num(n) : n \in (0 - 1)..MaxNum}
    \cup {Str(str) : str \in {"", "a", "string-error", "Operation timed out"}}
JSValues ==
  Primitives \cup {NewError(StringOf(v)) : v \in {w \in Primitives : w.t = "str"}}
    \cup {GoWrappedError(v) : v \in Primitives \ {Symbol}}
SyncOperations == {Returns(v) : v \in JSValues} \cup {Throws(v) : v \in JSValues}

\* ------------------------------------------------------------------------
\* State
\* ------------------------------------------------------------------------
VARIABLES
  options,                 \* the options argument of go
  goState,                 \* "notCalled", "pending", "returned", "rejected"
  result,                  \* what the promise returned by go settled with
  fullTimeoutExceeded,     \* index.ts:146
  totalTimeoutCancellable, \* index.ts:147, TRUE when not null
  delayCancellable,        \* index.ts:159, TRUE when assigned
  pc,                      \* position of makeAttempts (of attempt, without options)
  i,                       \* loop counter of makeAttempts
  lastFailedAttemptResult, \* index.ts:162
  goRes,                   \* outcome of the attempt that has just settled
  timers,                  \* pending setTimeout timers
  timerSeq,                \* number of timers created so far
  now,                     \* clock, in ms
  calls,                   \* history: the invocations of fn, in order
  curOp,                   \* invocation of fn the pending attempt waits for
  observerCalls,           \* history: arguments of the onAttemptError calls
  outcomes,                \* history: outcome observed for each attempt
  delays,                  \* history: number of delays started
  fired,                   \* history: the firing of the total-timeout timer
  returnedAt,              \* history: clock value when go returned
  fnThrows,                \* what fn throws when it throws synchronously
  observer,                \* what onAttemptError does when called
  observerDone,            \* history: the async observer calls that have completed
  syncFn,                  \* the operation goSync was last called with
  syncRes,                 \* what that call of goSync returned or threw
  apiCall,                 \* the last call of success, fail or an assertion
  apiRet,                  \* what that call returned or threw
  other                    \* the locals of a second, concurrent invocation of go

vars ==
  <<options, goState, result, fullTimeoutExceeded, totalTimeoutCancellable,
    delayCancellable, pc, i, lastFailedAttemptResult, goRes, timers, timerSeq, now,
    calls, curOp, observerCalls, outcomes, delays, fired, returnedAt, fnThrows,
    observer, observerDone, syncFn, syncRes, apiCall, apiRet, other>>

NoResult == [t |-> "pending"]

\* `fired` before the total-timeout timer fires; when it fires, the clock,
\* the numbers of invocations, delays and observer calls and the position of
\* makeAttempts at that moment
NotFired ==
  [yes |-> FALSE, at |-> 0 - 1, calls |-> 0, delays |-> 0, observerCalls |-> 0,
   pc |-> "idle"]
totalFired == fired.yes

\* The value the n-th invocation resolves with, the value it throws and the
\* Error instance it rejects with
ResolvedValue(n) == Num(n)
ThrownValue(n) == IF fnThrows = "symbol" THEN Symbol ELSE Str("oops" \o DigitStr(n))
RejectedValue(n) == NewError("fail" \o DigitStr(n))

\* What attempt returns for the n-th invocation when the operation decides
\* it, or what it throws
OpOutcome(n, kind, ok) ==
  IF kind = "throw" THEN createGoError(ThrownValue(n))
  ELSE IF kind = "resolved" \/ (kind = "after" /\ ok) THEN success(ResolvedValue(n))
  ELSE createGoError(RejectedValue(n))

\* The second invocation before it is called: the locals of go and of
\* makeAttempts, what its promise settled with, and its history
NotCalled ==
  [goState |-> "notCalled", result |-> NoResult, flag |-> FALSE, tc |-> FALSE,
   delayCancellable |-> FALSE, pc |-> "idle", i |-> 0, last |-> Null, goRes |-> NoResult,
   ret |-> NoResult, timers |-> {}, timerSeq |-> 0, calls |-> <<>>, curOp |-> 0,
   observerCalls |-> <<>>, outcomes |-> <<>>, delays |-> 0, fired |-> FALSE,
   calledAt |-> 0 - 1, returnedAt |-> 0 - 1]

\* The state before go is called, the operation throwing values of one of
\* the given kinds and the observer behaving in one of the given ways
InitOf(optionsDomain, thrownKinds, observerKinds) ==
  /\ options \in optionsDomain
  /\ fnThrows \in thrownKinds
  /\ observer \in (IF options.onAttemptError THEN observerKinds ELSE {"none"})
  /\ observerDone = {}
  /\ syncFn = NoResult
  /\ syncRes = NoResult
  /\ apiCall = NoResult
  /\ apiRet = NoResult
  /\ other = NotCalled
  /\ goState = "notCalled"
  /\ result = NoResult
  /\ fullTimeoutExceeded = FALSE
  /\ totalTimeoutCancellable = FALSE
  /\ delayCancellable = FALSE
  /\ pc = "idle"
  /\ i = 0
  /\ lastFailedAttemptResult = Null
  /\ goRes = NoResult
  /\ timers = {}
  /\ timerSeq = 0
  /\ now = 0
  /\ calls = <<>>
  /\ curOp = 0
  /\ observerCalls = <<>>
  /\ outcomes = <<>>
  /\ delays = 0
  /\ fired = NotFired
  /\ returnedAt = 0 - 1

InitWith(thrownKinds, observerKinds) ==
  InitOf(GoAsyncOptions \cup {NoOptions}, thrownKinds, observerKinds)

\* the operation throws strings and rejects with Error instances, and the
\* observer returns
Init == InitWith({"string"}, {"returns"})

\* ------------------------------------------------------------------------
\* Timers (setTimeout / clearTimeout)
\* ------------------------------------------------------------------------
Timer(kind, n, ms, seq) ==
  [kind |-> kind, n |-> n, deadline |-> now + ms, dur |-> ms, seq |-> seq]

\* u runs before t: earlier expiry, or same expiry and duration (the same
\* timer list) and created earlier
RunsBefore(u, t) ==
  \/ u.deadline < t.deadline
  \/ u.deadline = t.deadline /\ u.dur = t.dur /\ u.seq < t.seq

Due(t) == t \in timers /\ t.deadline <= now /\ \A u \in timers : ~RunsBefore(u, t)

\* the awaited attempt has settled: the continuation of makeAttempts (a
\* micro-task) is ready to run, and runs before any timer
Runnable == pc = "awaitAttempt" /\ goRes # NoResult

ClearTimeout(ts, kind) == {t \in ts : t.kind # kind}

\* ------------------------------------------------------------------------
\* makeAttempts and attempt, as functions on the locals of one invocation
\* ------------------------------------------------------------------------
Locals ==
  [pc |-> pc, i |-> i, last |-> lastFailedAttemptResult, goRes |-> goRes,
   timers |-> timers, timerSeq |-> timerSeq, calls |-> calls, curOp |-> curOp,
   flag |-> fullTimeoutExceeded, ret |-> NoResult, observerCalls |-> observerCalls,
   outcomes |-> outcomes, delays |-> delays, delayCancellable |-> delayCancellable]

\* mutant: the attempt that is not a retry is forgotten
Attempts_RetriesOnly(retries) == IF Truthy(retries) THEN retries.v + 1 ELSE 0

\* mutant: one attempt too many
Attempts_OneMore(retries) == IF Truthy(retries) THEN retries.v + 2 ELSE 1

\* mutant: one attempt too few
Attempts_OffByOne(retries) == IF Truthy(retries) THEN retries.v ELSE 1

\* const attempts = retries ? retries + 1 : 1
Attempts(retries) == IF Truthy(retries) THEN retries.v + 1 ELSE 1

\* attemptTimeoutMs[i] || attemptTimeoutMs.at(-1) for an array, else the value
AttemptTimeoutFor(at, idx) ==
  IF at.t = "arr"
  THEN LET x == IF idx < Len(at.a) THEN Num(at.a[idx + 1]) ELSE Undefined
           lastEl == IF Len(at.a) > 0 THEN Num(at.a[Len(at.a)]) ELSE Undefined
       IN IF Truthy(x) THEN x ELSE lastEl
  ELSE at

\* Math.random() * (max - min) + min, in whole milliseconds
getRandomInRange(lo, hi) == IF hi > lo THEN lo..(hi - 1) ELSE {lo}

DelayChoices(delay) ==
  IF delay.type = "static" THEN {delay.delayMs}
  ELSE getRandomInRange(delay.minDelayMs, delay.maxDelayMs)

\* mutant: `if (!attemptTimeoutMs)`, which takes 0 for "no timeout"
HasTimeout_Truthy(attemptTimeoutMs) == Truthy(attemptTimeoutMs)

\* index.ts:123: attemptTimeoutMs === undefined selects the untimed branch
HasTimeout(attemptTimeoutMs) == attemptTimeoutMs # Undefined

\* mutant: the timer rejects with an Error instance
TimeoutRejection_Error == NewError("Operation timed out")

\* index.ts:101: reject('Operation timed out')
TimeoutRejection == Str("Operation timed out")

\* attempt(fn, attemptTimeoutMs) up to its await: the timer is created
\* first, then fn is called with behaviour b.  An operation that throws or
\* returns a settled promise settles the attempt without any timer running.
StartAttempt(m, idx, attemptTimeoutMs, b) ==
  LET n == Len(m.calls) + 1
      hasT == HasTimeout(attemptTimeoutMs)
      seq1 == IF hasT THEN m.timerSeq + 1 ELSE m.timerSeq
      immediate == b.kind \in {"throw", "resolved", "rejected"}
      attemptT == IF hasT /\ ~immediate
                  THEN {[kind |-> "attempt", n |-> n, deadline |-> now + attemptTimeoutMs.v,
                         dur |-> attemptTimeoutMs.v, seq |-> m.timerSeq]}
                  ELSE {}
      opT == IF b.kind = "after"
             THEN {[kind |-> "op", n |-> n, deadline |-> now + b.ms, dur |-> b.ms, seq |-> seq1]}
             ELSE {}
  IN [m EXCEPT !.pc = "awaitAttempt", !.i = idx,
               !.goRes = IF immediate THEN OpOutcome(n, b.kind, TRUE) ELSE NoResult,
               !.timers = m.timers \cup attemptT \cup opT,
               !.timerSeq = IF b.kind = "after" THEN seq1 + 1 ELSE seq1,
               !.calls = Append(m.calls, [kind |-> b.kind, ms |-> b.ms, i |-> idx, at |-> now,
                                          timeout |-> attemptTimeoutMs, flag |-> m.flag]),
               !.curOp = n]

\* return of makeAttempts with val, or its end by the exception Throw(e)
Return(m, val) == [m EXCEPT !.pc = "returned", !.ret = val, !.goRes = NoResult]

\* mutant: fullTimeoutExceeded is declared outside go, one flag for all
\* invocations
BreakBeforeAttempt_SharedFlag(m) == fullTimeoutExceeded \/ other.flag

\* mutant: the deadline is tested by comparing the elapsed time
BreakBeforeAttempt_Elapsed(m) ==
  m.flag \/ (options.totalTimeoutMs.t = "num" /\ now >= options.totalTimeoutMs.v)

\* mutant: the flag is not tested before an attempt
BreakBeforeAttempt_Never(m) == FALSE

\* index.ts:176: if (fullTimeoutExceeded) break, before the attempt
BreakBeforeAttempt(m) == m.flag

\* mutant: the total-timeout sleep is started anew for every attempt
BeginIteration_Rearms(m, idx, b) ==
  LET rearmed == {IF t.kind = "total" THEN [t EXCEPT !.deadline = now + t.dur] ELSE t :
                    t \in m.timers}
  IN IF idx < Attempts(options.retries) /\ ~BreakBeforeAttempt(m)
     THEN StartAttempt([m EXCEPT !.timers = rearmed], idx,
                       AttemptTimeoutFor(options.attemptTimeoutMs, idx), b)
     ELSE Return([m EXCEPT !.i = idx], m.last)

\* index.ts:163-177: loop test, timeout of this attempt, flag test, attempt
BeginIteration(m, idx, b) ==
  IF idx < Attempts(options.retries) /\ ~BreakBeforeAttempt(m)
  THEN StartAttempt(m, idx, AttemptTimeoutFor(options.attemptTimeoutMs, idx), b)
  ELSE Return([m EXCEPT !.i = idx], m.last)

\* history entry for an attempt outcome handed to its awaiter
Observed(res) == [res |-> res, at |-> now, afterTotal |-> totalFired]

\* mutant: the outcome of an attempt is used whatever the flag says
BreakAfterAttempt_Never(m) == FALSE

\* index.ts:179: if (fullTimeoutExceeded) break, after the attempt
BreakAfterAttempt(m) == m.flag

\* mutant: the observer is called for the final attempt as well
ShouldNotify_EveryFailure(m, res) == ~res.success /\ options.onAttemptError

\* index.ts:181: i !== attempts - 1 && !goRes.success && onAttemptError
ShouldNotify(m, res) ==
  m.i # Attempts(options.retries) - 1 /\ ~res.success /\ options.onAttemptError

\* mutant: a successful attempt does not end the loop
ReturnsEarly_Never(res) == FALSE

\* index.ts:182: if (goRes.success) return goRes
ReturnsEarly(res) == res.success

\* mutant: the failure is kept only when a retry follows
NextLastFailed_SkipFinal(m, res) ==
  IF m.i = Attempts(options.retries) - 1 THEN m.last ELSE res

\* mutant: only the first failure is kept
NextLastFailed_KeepFirst(m, res) == IF m.last = Null THEN res ELSE m.last

\* index.ts:184: lastFailedAttemptResult = goRes
NextLastFailed(m, res) == res

\* mutant: the next attempt starts without waiting for the delay
ShouldDelay_Never(m) == FALSE

\* mutant: a delay follows the final attempt as well
ShouldDelay_Always(m) == options.delay.type # "none"

\* index.ts:185: if (delay && i !== attempts - 1)
ShouldDelay(m) == options.delay.type # "none" /\ m.i # Attempts(options.retries) - 1

\* mutant: the observer is handed the failure kept from the attempt before
NotifyObserver_PreviousFailure(m, res) ==
  [m EXCEPT !.observerCalls =
              Append(m.observerCalls,
                     [arg |-> m.last, i |-> m.i, afterTotal |-> totalFired, at |-> now,
                      calls |-> Len(m.calls), outcomes |-> Len(m.outcomes),
                      delays |-> m.delays])]

\* index.ts:181: the call onAttemptError(goRes) is recorded, with the
\* numbers of invocations, outcomes and delays at that moment; an async
\* observer runs to its first await and leaves a continuation that runs
\* MaxObserverMs later
NotifyObserver(m, res) ==
  LET c == Len(m.observerCalls) + 1
      m1 == [m EXCEPT !.observerCalls =
                        Append(m.observerCalls,
                               [arg |-> res, i |-> m.i, afterTotal |-> totalFired,
                                at |-> now, calls |-> Len(m.calls),
                                outcomes |-> Len(m.outcomes), delays |-> m.delays])]
  IN IF observer = "async"
     THEN [m1 EXCEPT !.timers = m.timers \cup
                       {[kind |-> "observer", n |-> c, deadline |-> now + MaxObserverMs,
                         dur |-> MaxObserverMs, seq |-> m.timerSeq]},
                     !.timerSeq = m.timerSeq + 1]
     ELSE m1

\* index.ts:181: what goSync(() => onAttemptError(goRes)) returns or throws
ObserverOutcome ==
  goSync(CASE observer = "throws" -> Throws(Str("observer failed"))
           [] observer = "throwsSymbol" -> Throws(Symbol)
           [] OTHER -> Returns(Undefined))

\* mutant: the delay is performed before the outcome of the attempt is
\* looked at, so that a success is returned only after the delay
AfterAttempt_DelayBeforeReturn(m, d, b) ==
  LET res == m.goRes
      m1 == [m EXCEPT !.outcomes = Append(m.outcomes, Observed(res))]
      m2 == IF ShouldNotify(m, res) THEN NotifyObserver(m1, res) ELSE m1
      m3 == [m2 EXCEPT !.last = IF res.success THEN m.last ELSE res, !.goRes = NoResult]
  IN IF BreakAfterAttempt(m) THEN Return(m1, m1.last)
     ELSE IF ShouldDelay(m)
     THEN [m3 EXCEPT !.pc = "awaitDelay", !.delayCancellable = TRUE, !.delays = m3.delays + 1,
                     !.timers = m3.timers \cup
                       {[kind |-> "delay", n |-> m.i, deadline |-> now + d, dur |-> d,
                         seq |-> m3.timerSeq]},
                     !.timerSeq = m3.timerSeq + 1]
     ELSE IF ReturnsEarly(res) THEN Return(m2, res)
     ELSE BeginIteration(m3, m.i + 1, b)

\* index.ts:177-200: the continuation of `await attempt(...)`; what attempt
\* or goSync throws is thrown by makeAttempts
AfterAttempt(m, d, b) ==
  LET res == m.goRes
      m1 == [m EXCEPT !.outcomes = Append(m.outcomes, Observed(res))]
      m2 == IF ShouldNotify(m, res) THEN NotifyObserver(m1, res) ELSE m1
      m3 == [m2 EXCEPT !.last = NextLastFailed(m, res), !.goRes = NoResult]
  IN IF IsThrow(res) THEN Return(m, res)
     ELSE IF BreakAfterAttempt(m) THEN Return(m1, m1.last)
     ELSE IF ShouldNotify(m, res) /\ IsThrow(ObserverOutcome) THEN Return(m2, ObserverOutcome)
     ELSE IF ReturnsEarly(res) THEN Return(m2, res)
     ELSE IF ShouldDelay(m)
     THEN [m3 EXCEPT !.pc = "awaitDelay", !.delayCancellable = TRUE, !.delays = m3.delays + 1,
                     !.timers = m3.timers \cup
                       {[kind |-> "delay", n |-> m.i, deadline |-> now + d, dur |-> d,
                         seq |-> m3.timerSeq]},
                     !.timerSeq = m3.timerSeq + 1]
     ELSE BeginIteration(m3, m.i + 1, b)

\* mutant: go returns only when no observer call is pending
Settles_AfterObservers(m, gs) ==
  /\ gs = "pending" /\ m.pc = "returned" /\ pc # "returned"
  /\ \A t \in m.timers : t.kind # "observer"

\* index.ts:206: makeAttempts has ended in this action while go is pending
Settles(m, gs) == gs = "pending" /\ m.pc = "returned" /\ pc # "returned"

\* mutant: the total-timeout sleep is left running when go returns
CancelOnReturn_DelayOnly(ts) == ClearTimeout(ts, "delay")

\* index.ts:207-208: totalTimeoutCancellable.cancel(), delayCancellable.cancel()
CancelOnReturn(ts) == ClearTimeout(ClearTimeout(ts, "total"), "delay")

\* The state after an action that left the locals as m, go being in state
\* gs with result res (returned at clock value at).  When makeAttempts has
\* returned in this action and go is still pending, go settles with the
\* returned value (index.ts:206-210) and cancels the total-timeout sleep,
\* whose `then` callback sets the flag.  When makeAttempts has thrown, the
\* await of index.ts:206 throws: go rejects and cancels nothing.
Commit(m, gs, res, at) ==
  LET settles == Settles(m, gs)
      rejects == settles /\ IsThrow(m.ret)
  IN /\ pc' = m.pc
     /\ i' = m.i
     /\ lastFailedAttemptResult' = m.last
     /\ goRes' = m.goRes
     /\ timerSeq' = m.timerSeq
     /\ calls' = m.calls
     /\ curOp' = m.curOp
     /\ observerCalls' = m.observerCalls
     /\ outcomes' = m.outcomes
     /\ delays' = m.delays
     /\ delayCancellable' = m.delayCancellable
     /\ timers' = IF settles /\ ~rejects
                  THEN CancelOnReturn(m.timers)
                  ELSE m.timers
     /\ fullTimeoutExceeded' =
          IF settles /\ ~rejects /\ totalTimeoutCancellable' THEN TRUE ELSE m.flag
     /\ result' = IF settles THEN m.ret ELSE res
     /\ goState' = IF rejects THEN "rejected" ELSE IF settles THEN "returned" ELSE gs
     /\ returnedAt' = IF settles THEN now ELSE at
     /\ UNCHANGED <<options, now, fnThrows, observer, observerDone, syncFn, syncRes,
                    apiCall, apiRet, other>>

\* ------------------------------------------------------------------------
\* Actions
\* ------------------------------------------------------------------------
\* The call go(fn, options): index.ts:142-160 and the first iteration of
\* makeAttempts, up to the first await.
Go ==
  /\ goState = "notCalled"
  /\ LET hasTotal == options.present /\ options.totalTimeoutMs # Undefined
         m0 == [Locals EXCEPT
                  !.timers = IF hasTotal
                             THEN {Timer("total", 0, options.totalTimeoutMs.v, 0)}
                             ELSE {},
                  !.timerSeq = IF hasTotal THEN 1 ELSE 0]
     IN /\ totalTimeoutCancellable' = hasTotal
        /\ fired' = NotFired
        /\ \E m \in {IF options.present THEN BeginIteration(m0, 0, b)
                       ELSE StartAttempt(m0, 0, Undefined, b) : b \in OpBehaviours} :
             Commit(m, "pending", NoResult, 0 - 1)

\* The continuation of `await attempt(...)` in makeAttempts, run to the next
\* await; without options, go returns what attempt returned.
Resume ==
  /\ Runnable
  /\ UNCHANGED <<totalTimeoutCancellable, fired>>
  /\ IF options.present
     THEN \E m \in {AfterAttempt(Locals, d, b) :
                      d \in (IF options.delay.type = "none" THEN {0}
                             ELSE DelayChoices(options.delay)),
                      b \in OpBehaviours} :
            Commit(m, goState, result, returnedAt)
     ELSE IF IsThrow(goRes)
     THEN Commit(Return(Locals, goRes), goState, result, returnedAt)
     ELSE Commit(Return([Locals EXCEPT !.outcomes = Append(outcomes, Observed(goRes))], goRes),
                 goState, result, returnedAt)

\* mutant: the attempt keeps waiting for an operation that can still settle
AttemptTimerFires_WaitsForOp ==
  /\ ~Runnable
  /\ \E t \in timers :
       /\ t.kind = "attempt"
       /\ Due(t)
       /\ UNCHANGED <<totalTimeoutCancellable, fired>>
       /\ Commit([Locals EXCEPT
                    !.timers = timers \ {t},
                    !.goRes = IF \E u \in timers : u.kind = "op" /\ u.n = t.n
                              THEN NoResult ELSE createGoError(TimeoutRejection)],
                 goState, result, returnedAt)

\* The timer of cancellableTimeout fires: reject('Operation timed out')
AttemptTimerFires ==
  /\ ~Runnable
  /\ \E t \in timers :
       /\ t.kind = "attempt"
       /\ Due(t)
       /\ UNCHANGED <<totalTimeoutCancellable, fired>>
       /\ Commit([Locals EXCEPT !.timers = timers \ {t},
                                !.goRes = createGoError(TimeoutRejection)],
                 goState, result, returnedAt)

\* mutant: attempt returns without cancelling its timeout
OpSettles_KeepsTimer ==
  /\ ~Runnable
  /\ \E t \in timers :
       /\ t.kind = "op"
       /\ Due(t)
       /\ UNCHANGED <<totalTimeoutCancellable, fired>>
       /\ IF pc = "awaitAttempt" /\ curOp = t.n
          THEN \E ok \in BOOLEAN :
                 Commit([Locals EXCEPT !.timers = timers \ {t},
                                       !.goRes = OpOutcome(t.n, "after", ok)],
                        goState, result, returnedAt)
          ELSE Commit([Locals EXCEPT !.timers = timers \ {t}], goState, result, returnedAt)

\* mutant: a settling operation decides whichever attempt is pending
OpSettles_LateDecides ==
  /\ ~Runnable
  /\ \E t \in timers :
       /\ t.kind = "op"
       /\ Due(t)
       /\ UNCHANGED <<totalTimeoutCancellable, fired>>
       /\ IF pc = "awaitAttempt"
          THEN \E ok \in BOOLEAN :
                 Commit([Locals EXCEPT !.timers = ClearTimeout(timers \ {t}, "attempt"),
                                       !.goRes = OpOutcome(t.n, "after", ok)],
                        goState, result, returnedAt)
          ELSE Commit([Locals EXCEPT !.timers = timers \ {t}], goState, result, returnedAt)

\* The promise returned by the n-th invocation of fn settles.  It decides
\* the attempt that still waits for it (whose timer is then cancelled); the
\* settlement of an abandoned operation has no effect.
OpSettles ==
  /\ ~Runnable
  /\ \E t \in timers :
       /\ t.kind = "op"
       /\ Due(t)
       /\ UNCHANGED <<totalTimeoutCancellable, fired>>
       /\ IF pc = "awaitAttempt" /\ curOp = t.n
          THEN \E ok \in BOOLEAN :
                 Commit([Locals EXCEPT !.timers = ClearTimeout(timers \ {t}, "attempt"),
                                       !.goRes = OpOutcome(t.n, "after", ok)],
                        goState, result, returnedAt)
          ELSE Commit([Locals EXCEPT !.timers = timers \ {t}], goState, result, returnedAt)

\* The delay between two attempts has elapsed: next iteration of the loop
DelayElapses ==
  /\ ~Runnable
  /\ pc = "awaitDelay"
  /\ \E t \in timers :
       /\ t.kind = "delay"
       /\ Due(t)
       /\ UNCHANGED <<totalTimeoutCancellable, fired>>
       /\ \E m \in {BeginIteration([Locals EXCEPT !.timers = timers \ {t}], i + 1, b) :
                       b \in OpBehaviours} :
            Commit(m, goState, result, returnedAt)

\* index.ts:154: fail(new Error('Full timeout exceeded'))
FullTimeoutResult == fail(NewError("Full timeout exceeded"))

\* mutant: the sleep only sets the flag, go keeps waiting for makeAttempts
TotalTimeoutFires_FlagOnly ==
  /\ ~Runnable
  /\ \E t \in timers :
       /\ t.kind = "total"
       /\ Due(t)
       /\ UNCHANGED totalTimeoutCancellable
       /\ fired' = [yes |-> TRUE, at |-> now, calls |-> Len(calls), delays |-> delays,
                     observerCalls |-> Len(observerCalls), pc |-> pc]
       /\ Commit([Locals EXCEPT !.flag = TRUE, !.timers = timers \ {t}],
                 goState, result, returnedAt)

\* mutant: go returns without cancelling the delay in progress
TotalTimeoutFires_KeepsDelay ==
  /\ ~Runnable
  /\ \E t \in timers :
       /\ t.kind = "total"
       /\ Due(t)
       /\ UNCHANGED totalTimeoutCancellable
       /\ fired' = [yes |-> TRUE, at |-> now, calls |-> Len(calls), delays |-> delays,
                     observerCalls |-> Len(observerCalls), pc |-> pc]
       /\ Commit([Locals EXCEPT !.flag = TRUE, !.timers = timers \ {t}],
                 "returned", FullTimeoutResult, now)

\* The total-timeout sleep elapses (index.ts:152-155): the flag is set, the
\* race of index.ts:206 settles with the "Full timeout exceeded" failure,
\* and go cancels a pending delay, which lets makeAttempts run to its break.
\* A go that has rejected has left the sleep running: only the flag is set.
TotalTimeoutFires ==
  /\ ~Runnable
  /\ \E t \in timers :
       /\ t.kind = "total"
       /\ Due(t)
       /\ UNCHANGED totalTimeoutCancellable
       /\ fired' = [yes |-> TRUE, at |-> now, calls |-> Len(calls), delays |-> delays,
                     observerCalls |-> Len(observerCalls), pc |-> pc]
       /\ LET m0 == [Locals EXCEPT !.flag = TRUE,
                                   !.timers = ClearTimeout(timers \ {t}, "delay")]
          IN \E m \in {IF pc = "awaitDelay" THEN BeginIteration(m0, i + 1, b) ELSE m0 :
                          b \in OpBehaviours} :
               IF goState = "pending"
               THEN Commit(m, "returned", FullTimeoutResult, now)
               ELSE Commit(m, goState, result, returnedAt)

\* Time passes: no continuation is ready and no timer is due
Tick ==
  /\ ~Runnable
  /\ timers # {}
  /\ \A t \in timers : t.deadline > now
  /\ now' = now + 1
  /\ UNCHANGED <<options, goState, result, fullTimeoutExceeded,
                 totalTimeoutCancellable, delayCancellable, pc, i, lastFailedAttemptResult,
                 goRes, timers, timerSeq, calls, curOp, observerCalls, outcomes, delays,
                 fired, returnedAt, fnThrows, observer, observerDone, syncFn, syncRes,
                 apiCall, apiRet, other>>

\* The continuation of an async observer runs: that call of onAttemptError
\* completes, whatever go has done since
ObserverCompletes ==
  /\ ~Runnable
  /\ \E t \in timers :
       /\ t.kind = "observer"
       /\ Due(t)
       /\ timers' = timers \ {t}
       /\ observerDone' = observerDone \cup {t.n}
  /\ UNCHANGED <<options, goState, result, fullTimeoutExceeded,
                 totalTimeoutCancellable, delayCancellable, pc, i, lastFailedAttemptResult,
                 goRes, timerSeq, now, calls, curOp, observerCalls, outcomes, delays,
                 fired, returnedAt, fnThrows, observer, syncFn, syncRes, apiCall, apiRet,
                 other>>

\* A call goSync(fn)
GoSync ==
  /\ \E fn \in SyncOperations :
       /\ syncFn' = fn
       /\ syncRes' = goSync(fn)
  /\ UNCHANGED <<options, goState, result, fullTimeoutExceeded,
                 totalTimeoutCancellable, delayCancellable, pc, i, lastFailedAttemptResult,
                 goRes, timers, timerSeq, now, calls, curOp, observerCalls, outcomes,
                 delays, fired, returnedAt, fnThrows, observer, observerDone, apiCall,
                 apiRet, other>>

\* The Error instances and the Results the exported functions are applied to
Errors == {v \in JSValues : InstanceOfError(v)}
Results == {success(v) : v \in JSValues} \cup {fail(e) : e \in Errors}

\* A call of one of the exported functions with one argument
Call(fn, arg) == [fn |-> fn, arg |-> arg]

\* mutant: the error is wrapped before it is thrown
assertGoSuccess_Wraps(res) ==
  IF ~res.success THEN Throw(GoWrappedError(res.error)) ELSE Undefined

\* index.ts:33-37: if (!result.success) throw result.error
assertGoSuccess(res) == IF ~res.success THEN Throw(res.error) ELSE Undefined

\* mutant: the test of assertGoSuccess
assertGoError_Inverted(res) ==
  IF ~res.success
  THEN Throw(NewError("Assertion failed. Expected error, but no error was thrown"))
  ELSE Undefined

\* index.ts:41-45: if (result.success) throw new Error('Assertion failed. ...')
assertGoError(res) ==
  IF res.success
  THEN Throw(NewError("Assertion failed. Expected error, but no error was thrown"))
  ELSE Undefined

ApiUnchanged ==
  UNCHANGED <<options, goState, result, fullTimeoutExceeded,
              totalTimeoutCancellable, delayCancellable, pc, i, lastFailedAttemptResult,
              goRes, timers, timerSeq, now, calls, curOp, observerCalls, outcomes,
              delays, fired, returnedAt, fnThrows, observer, observerDone, syncFn,
              syncRes, other>>

\* A call success(value)
Success ==
  /\ \E v \in JSValues :
       /\ apiCall' = Call("success", v)
       /\ apiRet' = success(v)
  /\ ApiUnchanged

\* A call fail(err)
Fail ==
  /\ \E e \in Errors :
       /\ apiCall' = Call("fail", e)
       /\ apiRet' = fail(e)
  /\ ApiUnchanged

\* A call assertGoSuccess(result)
AssertGoSuccess ==
  /\ \E r \in Results :
       /\ apiCall' = Call("assertGoSuccess", r)
       /\ apiRet' = assertGoSuccess(r)
  /\ ApiUnchanged

\* A call assertGoError(result)
AssertGoError ==
  /\ \E r \in Results :
       /\ apiCall' = Call("assertGoError", r)
       /\ apiRet' = assertGoError(r)
  /\ ApiUnchanged

\* ------------------------------------------------------------------------
\* A second invocation of go with the same operation and options, called
\* while the first is under way.  Its locals are the record `other`; the
\* clock and the event loop are shared.
\* ------------------------------------------------------------------------
FirstUnchanged ==
  UNCHANGED <<options, goState, result, fullTimeoutExceeded, totalTimeoutCancellable,
              delayCancellable, pc, i, lastFailedAttemptResult, goRes, timers, timerSeq,
              now, calls, curOp, observerCalls, outcomes, delays, fired, returnedAt,
              fnThrows, observer, observerDone, syncFn, syncRes, apiCall, apiRet>>

OtherRunnable == other.pc = "awaitAttempt" /\ other.goRes # NoResult

OtherDue(t) ==
  t \in other.timers /\ t.deadline <= now /\ \A u \in other.timers : ~RunsBefore(u, t)

\* index.ts:206-210 for the locals m of the second invocation, which were o
\* before the step: when makeAttempts has ended in this step and go is
\* pending, go settles with what makeAttempts returned and cancels the
\* total-timeout sleep and the delay
OtherCommit(m, o) ==
  LET settles == o.goState = "pending" /\ m.pc = "returned" /\ o.pc # "returned"
      rejects == settles /\ IsThrow(m.ret)
  IN [m EXCEPT
        !.timers = IF settles /\ ~rejects THEN CancelOnReturn(m.timers) ELSE m.timers,
        !.flag = IF settles /\ ~rejects /\ m.tc THEN TRUE ELSE m.flag,
        !.result = IF settles THEN m.ret ELSE m.result,
        !.goState = IF rejects THEN "rejected" ELSE IF settles THEN "returned" ELSE m.goState,
        !.returnedAt = IF settles THEN now ELSE m.returnedAt,
        !.ret = NoResult,
        !.outcomes = [k \in DOMAIN m.outcomes |->
                        IF k > Len(o.outcomes)
                        THEN [m.outcomes[k] EXCEPT !.afterTotal = o.fired]
                        ELSE m.outcomes[k]]]

\* The second call go(fn, options), up to its first await
OtherGo ==
  /\ goState # "notCalled"
  /\ other.goState = "notCalled"
  /\ options.present
  /\ LET hasTotal == options.totalTimeoutMs # Undefined
         m0 == [other EXCEPT
                  !.goState = "pending", !.calledAt = now, !.tc = hasTotal,
                  !.timers = IF hasTotal
                             THEN {Timer("total", 0, options.totalTimeoutMs.v, 0)}
                             ELSE {},
                  !.timerSeq = IF hasTotal THEN 1 ELSE 0]
     IN \E b \in OpBehaviours : other' = OtherCommit(BeginIteration(m0, 0, b), m0)
  /\ FirstUnchanged

\* The continuation of `await attempt(...)` of the second invocation
OtherResume ==
  /\ OtherRunnable
  /\ \E d \in (IF options.delay.type = "none" THEN {0} ELSE DelayChoices(options.delay)),
        b \in OpBehaviours :
       other' = OtherCommit(AfterAttempt(other, d, b), other)
  /\ FirstUnchanged

\* The timer of an attempt of the second invocation fires
OtherAttemptTimerFires ==
  /\ ~OtherRunnable
  /\ \E t \in other.timers :
       /\ t.kind = "attempt"
       /\ OtherDue(t)
       /\ other' = [other EXCEPT !.timers = other.timers \ {t},
                                  !.goRes = createGoError(TimeoutRejection)]
  /\ FirstUnchanged

\* The promise of an invocation of fn made by the second invocation settles
OtherOpSettles ==
  /\ ~OtherRunnable
  /\ \E t \in other.timers :
       /\ t.kind = "op"
       /\ OtherDue(t)
       /\ IF other.pc = "awaitAttempt" /\ other.curOp = t.n
          THEN \E ok \in BOOLEAN :
                 other' = [other EXCEPT
                             !.timers = ClearTimeout(other.timers \ {t}, "attempt"),
                             !.goRes = OpOutcome(t.n, "after", ok)]
          ELSE other' = [other EXCEPT !.timers = other.timers \ {t}]
  /\ FirstUnchanged

\* A delay of the second invocation has elapsed
OtherDelayElapses ==
  /\ ~OtherRunnable
  /\ other.pc = "awaitDelay"
  /\ \E t \in other.timers :
       /\ t.kind = "delay"
       /\ OtherDue(t)
       /\ \E b \in OpBehaviours :
            other' = OtherCommit(BeginIteration([other EXCEPT !.timers = other.timers \ {t}],
                                                other.i + 1, b),
                                 other)
  /\ FirstUnchanged

\* The total-timeout sleep of the second invocation elapses
OtherTotalTimeoutFires ==
  /\ ~OtherRunnable
  /\ \E t \in other.timers :
       /\ t.kind = "total"
       /\ OtherDue(t)
       /\ LET m0 == [other EXCEPT !.flag = TRUE, !.fired = TRUE,
                                   !.timers = ClearTimeout(other.timers \ {t}, "delay")]
          IN \E b \in OpBehaviours :
               LET m == IF other.pc = "awaitDelay"
                        THEN BeginIteration(m0, other.i + 1, b) ELSE m0
               IN other' = IF other.goState = "pending"
                           THEN [m EXCEPT !.goState = "returned", !.result = FullTimeoutResult,
                                          !.returnedAt = now, !.ret = NoResult]
                           ELSE [m EXCEPT !.ret = NoResult]
  /\ FirstUnchanged

\* Time passes: no continuation of either invocation is ready and no timer
\* of either is due
PairTick ==
  /\ ~Runnable /\ ~OtherRunnable
  /\ timers \cup other.timers # {}
  /\ \A t \in timers \cup other.timers : t.deadline > now
  /\ now' = now + 1
  /\ UNCHANGED <<options, goState, result, fullTimeoutExceeded,
                 totalTimeoutCancellable, delayCancellable, pc, i, lastFailedAttemptResult,
                 goRes, timers, timerSeq, calls, curOp, observerCalls, outcomes, delays,
                 fired, returnedAt, fnThrows, observer, observerDone, syncFn, syncRes,
                 apiCall, apiRet, other>>

Next ==
  \/ Go
  \/ Resume
  \/ AttemptTimerFires
  \/ OpSettles
  \/ DelayElapses
  \/ TotalTimeoutFires
  \/ Tick

Spec == Init /\ [][Next]_vars

\* go without an observer and with no delay or a static one, the event
\* loop running for ever: a continuation that is ready runs, a timer that
\* is due fires, and time passes while a timer is pending.
InitFair ==
  InitOf({o \in GoAsyncOptions \cup {NoOptions} :
            ~o.onAttemptError /\ o.delay.type # "random"},
         {"string"}, {"returns"})

SpecFair == InitFair /\ [][Next]_vars /\ WF_vars(Next)

\* go with an operation that throws a string or a Symbol and an observer
\* that returns or throws
InitAnyThrow == InitWith(ThrownKinds, {"returns", "throws", "throwsSymbol"})

SpecAnyThrow == InitAnyThrow /\ [][Next]_vars

\* go with an async observer
InitObserver == InitWith({"string"}, {"async"})

NextObserver ==
  \/ Go
  \/ Resume
  \/ AttemptTimerFires
  \/ OpSettles
  \/ DelayElapses
  \/ TotalTimeoutFires
  \/ ObserverCompletes
  \/ Tick

SpecObserver == InitObserver /\ [][NextObserver]_vars

\* go with attemptTimeoutMs given as an array: every array of one to
\* MaxRetries timeouts of 0 or MaxAttemptTimeoutMs ms
ArrayTimeoutDomain ==
  {Arr(a) : a \in UNION {[1..n -> {0, MaxAttemptTimeoutMs}] : n \in 1..MaxRetries}}

ArrayOptions ==
  [present : {TRUE}, retries : RetriesDomain, attemptTimeoutMs : ArrayTimeoutDomain,
   totalTimeoutMs : TotalTimeoutDomain, delay : DelayDomain, onAttemptError : BOOLEAN]

InitArray == InitOf(ArrayOptions, {"string"}, {"returns"})

SpecArray == InitArray /\ [][Next]_vars

\* two concurrent invocations of go with the same options: one retry and no
\* observer, each timeout omitted or at its longest, no delay or a static one
PairOptions ==
  [present : {TRUE}, retries : {Num(1)},
   attemptTimeoutMs : {Undefined, Num(MaxAttemptTimeoutMs)},
   totalTimeoutMs : {Undefined, Num(MaxTotalTimeoutMs)},
   delay : {NoDelay, StaticDelay(MaxDelayMs)}, onAttemptError : {FALSE}]

InitPair == InitOf(PairOptions, {"string"}, {"returns"})

NextPair ==
  \/ Go
  \/ Resume
  \/ AttemptTimerFires
  \/ OpSettles
  \/ DelayElapses
  \/ TotalTimeoutFires
  \/ OtherGo
  \/ OtherResume
  \/ OtherAttemptTimerFires
  \/ OtherOpSettles
  \/ OtherDelayElapses
  \/ OtherTotalTimeoutFires
  \/ PairTick

SpecPair == InitPair /\ [][NextPair]_vars

\* goSync alone, applied to one operation after another
InitSync ==
  /\ Init
  /\ options = NoOptions

SpecSync == InitSync /\ [][GoSync]_vars

\* the constructors and the assertions alone, one call after another
NextApi ==
  \/ Success
  \/ Fail
  \/ AssertGoSuccess
  \/ AssertGoError

SpecApi == InitSync /\ [][NextApi]_vars

TypeOK ==
  /\ goState \in {"notCalled", "pending", "returned", "rejected"}
  /\ pc \in {"idle", "awaitAttempt", "awaitDelay", "returned"}
  /\ fullTimeoutExceeded \in BOOLEAN
  /\ Len(calls) <= MaxRetries + 1

\* ------------------------------------------------------------------------
\* Vocabulary of the properties
\* ------------------------------------------------------------------------
\* the configured number of retries (0 when omitted, or without options)
Retries == IF options.retries.t = "num" THEN options.retries.v ELSE 0

Returned == goState = "returned"

IsResult(r) == "success" \in DOMAIN r
IsSuccess(r) == IsResult(r) /\ r.success
IsFailure(r) == IsResult(r) /\ ~r.success
FailsWith(r, msg) == IsFailure(r) /\ r.error.message = msg

NoAttemptTimeout == options.attemptTimeoutMs = Undefined
NoTotalTimeout == options.totalTimeoutMs = Undefined

\* the error attempt() reports when the n-th invocation of fn fails
ErrorOfCall(n) ==
  IF calls[n].kind = "throw" THEN GoWrappedError(ThrownValue(n)) ELSE RejectedValue(n)

AllObservedFailed == \A k \in DOMAIN outcomes : ~outcomes[k].res.success

\* ------------------------------------------------------------------------
\* Properties
\* ------------------------------------------------------------------------

\* C1: with retries = r >= 0, no timeout configured and an operation that
\* fails on every attempt, go has invoked the operation exactly r+1 times
\* when it returns, and returns the failure of the last (r+1-th) invocation.
C1_ExhaustionReturnsLastError ==
  (Returned /\ Retries >= 0 /\ NoAttemptTimeout /\ NoTotalTimeout /\ AllObservedFailed)
    => /\ Len(calls) = Retries + 1
       /\ IsFailure(result)
       /\ result.error = ErrorOfCall(Retries + 1)
       /\ \A n \in 1..Retries : result.error # ErrorOfCall(n)

C1_Witness ==
  /\ Returned /\ Retries = 2 /\ NoAttemptTimeout /\ NoTotalTimeout /\ AllObservedFailed
  /\ Len(calls) = 3
  /\ result = fail(RejectedValue(3))

\* C2: when an attempt is observed to succeed (k failures before it, the
\* total timeout not fired), go has returned that attempt's success, the
\* operation has been invoked exactly k+1 times, and no further invocation,
\* delay or observer call ever follows.
C2_SuccessIsTerminal ==
  LET k == Len(outcomes) - 1
  IN (Len(outcomes) > 0 /\ outcomes[Len(outcomes)].res.success /\ ~totalFired)
       => /\ \A j \in 1..k : ~outcomes[j].res.success
          /\ Returned
          /\ result = success(ResolvedValue(k + 1))
          /\ Len(calls) = k + 1
          /\ pc = "returned"
          /\ delays <= k
          /\ Len(observerCalls) <= k
          /\ \A c \in DOMAIN observerCalls : observerCalls[c].i < k
          /\ \A t \in timers : t.kind = "op"

C2_Witness ==
  /\ Returned /\ Retries = 2
  /\ Len(calls) = 3
  /\ result = success(ResolvedValue(3))
  /\ Len(observerCalls) = 2
  /\ delays = 2

\* C3: once the total-timeout timer has fired, go has returned the failure
\* "Full timeout exceeded", and it returned at the very clock value at
\* which the timer fired: it waits neither for the attempt or delay in
\* progress nor for the remaining retries.
C3_TotalTimeoutReturnsAtOnce ==
  totalFired =>
    /\ Returned
    /\ FailsWith(result, "Full timeout exceeded")
    /\ result.error.t = "Error"
    /\ returnedAt = fired.at

\* the timer has fired during the first of three attempts, which is still
\* in progress
C3_Witness ==
  /\ totalFired /\ Returned
  /\ FailsWith(result, "Full timeout exceeded")
  /\ pc = "awaitAttempt" /\ goRes = NoResult
  /\ i = 0 /\ Retries = 2
  /\ \E t \in timers : t.kind = "op" /\ t.n = curOp /\ t.deadline > now

\* the attempts the observer has to be told about: failed, not the final
\* one, and observed before the total timeout fired
Reportable(k) ==
  /\ ~outcomes[k].res.success
  /\ k # Retries + 1
  /\ ~outcomes[k].afterTotal

\* C4: onAttemptError has been called exactly once for each failed
\* non-final attempt observed before the total timeout fired, with that
\* attempt's failure, in order; it is never called for the final attempt,
\* for a success, or after the total timeout has fired.
C4_ObserverCalls ==
    /\ \A c \in DOMAIN observerCalls :
         LET call == observerCalls[c]
         IN /\ call.i + 1 \in DOMAIN outcomes
            /\ Reportable(call.i + 1)
            /\ call.arg = outcomes[call.i + 1].res
            /\ ~call.afterTotal
            /\ \A c2 \in DOMAIN observerCalls : c2 < c => observerCalls[c2].i < call.i
    /\ options.onAttemptError =>
         \A k \in DOMAIN outcomes :
           Reportable(k) => \E c \in DOMAIN observerCalls : observerCalls[c].i = k - 1
    /\ ~options.onAttemptError => observerCalls = <<>>

\* two attempts time out and are reported, the total timeout fires during
\* the third, whose late failure is not reported
C4_Witness ==
  /\ Retries = 2 /\ options.onAttemptError
  /\ Len(observerCalls) = 2
  /\ totalFired
  /\ Len(outcomes) = 3
  /\ ~outcomes[3].res.success

\* C5: after the total timeout has fired the operation is not invoked
\* again, no delay is started, the observer is not called and the result of
\* go remains the "Full timeout exceeded" failure, whatever the abandoned
\* attempt does later.
C5_AbandonedOutcomeDiscarded ==
  totalFired =>
    /\ Len(calls) = fired.calls
    /\ delays = fired.delays
    /\ Len(observerCalls) = fired.observerCalls
    /\ \A t \in timers : t.kind # "delay"
    /\ result = fail(NewError("Full timeout exceeded"))

\* the attempt abandoned by the total timeout later succeeds
C5_Witness ==
  /\ totalFired
  /\ Len(outcomes) > 0
  /\ outcomes[Len(outcomes)].afterTotal
  /\ outcomes[Len(outcomes)].res.success
  /\ Retries > i
  /\ result = fail(NewError("Full timeout exceeded"))

\* what the operation of the k-th attempt did, against the timeout T >= 0
\* of that attempt
SettlesAtOnce(k) == calls[k].kind \in {"throw", "resolved", "rejected"}
SettlesBefore(k, T) == SettlesAtOnce(k) \/ (calls[k].kind = "after" /\ calls[k].ms < T)
SettlesAfter(k, T) == calls[k].kind = "never" \/ (calls[k].kind = "after" /\ calls[k].ms > T)

\* the k-th attempt ended in the failure "Operation timed out", T ms after
\* it started
TimedOutAfter(k, T) ==
  /\ FailsWith(outcomes[k].res, "Operation timed out")
  /\ outcomes[k].at = calls[k].at + T

\* the k-th attempt ended with what its operation did, when it did it
DecidedByOperation(k) ==
  /\ outcomes[k].at = calls[k].at + calls[k].ms
  /\ CASE calls[k].kind = "resolved" -> outcomes[k].res = success(ResolvedValue(k))
       [] calls[k].kind = "rejected" -> outcomes[k].res = fail(RejectedValue(k))
       [] calls[k].kind = "throw" ->
            /\ IsFailure(outcomes[k].res)
            /\ outcomes[k].res.error.t = "GoWrappedError"
            /\ outcomes[k].res.error.reason = ThrownValue(k)
       [] calls[k].kind = "after" ->
            outcomes[k].res \in {success(ResolvedValue(k)), fail(RejectedValue(k))}
       [] OTHER -> FALSE

\* C6: an attempt with a timeout of T ms ends with whichever of the
\* operation and the timer settles first: "Operation timed out" after T ms
\* when the operation needs longer, the success or normalized failure of
\* the operation when it settles earlier.
C6_AttemptRace ==
  \A k \in DOMAIN outcomes :
    calls[k].timeout # Undefined =>
      LET T == calls[k].timeout.v
      IN /\ SettlesBefore(k, T) => DecidedByOperation(k)
         /\ SettlesAfter(k, T) => TimedOutAfter(k, T)
         /\ DecidedByOperation(k) \/ TimedOutAfter(k, T)

\* one run in which the timer won an attempt and the operation won the next
C6_Witness ==
  /\ Len(outcomes) >= 2
  /\ calls[1].timeout = Num(1) /\ calls[1].kind = "never"
  /\ FailsWith(outcomes[1].res, "Operation timed out")
  /\ calls[2].timeout = Num(1) /\ calls[2].kind = "after" /\ calls[2].ms = 0
  /\ outcomes[2].res = success(ResolvedValue(2))

\* C7: with attemptTimeoutMs = T, no total timeout and an operation that
\* needs longer than T on every attempt, each attempt times out T ms after
\* its own start, and go returns "Operation timed out" after exactly r+1
\* invocations.
C7_TimeoutPerAttempt ==
  (/\ options.present /\ Retries >= 0 /\ NoTotalTimeout
   /\ options.attemptTimeoutMs.t = "num"
   /\ \A n \in DOMAIN calls : SettlesAfter(n, options.attemptTimeoutMs.v))
    => /\ \A k \in DOMAIN outcomes : TimedOutAfter(k, options.attemptTimeoutMs.v)
       /\ Returned => /\ Len(calls) = Retries + 1
                      /\ FailsWith(result, "Operation timed out")

C7_Witness ==
  /\ Returned /\ Retries = 2 /\ NoTotalTimeout
  /\ options.attemptTimeoutMs = Num(1)
  /\ Len(calls) = 3
  /\ \A n \in DOMAIN calls : SettlesAfter(n, 1)
  /\ FailsWith(result, "Operation timed out")
  /\ now = 3

\* C8 as stated: every attempt run with a timeout of 0 fails with
\* "Operation timed out".
C8_ZeroTimeoutAlwaysFails ==
  \A k \in DOMAIN outcomes :
    calls[k].timeout = Num(0) => FailsWith(outcomes[k].res, "Operation timed out")

\* C8, amended: a timeout of 0 is a deadline and not "no timeout".  An
\* attempt run with it whose operation has not settled when fn returns
\* fails with "Operation timed out" before the clock advances; an operation
\* that throws or returns a settled promise decides the attempt.  Without a
\* timeout an attempt lasts as long as its operation.
C8_ZeroTimeoutIsADeadline ==
  \A k \in DOMAIN calls :
    /\ (calls[k].timeout = Num(0) /\ ~SettlesAtOnce(k)) =>
         /\ now > calls[k].at => k \in DOMAIN outcomes
         /\ k \in DOMAIN outcomes => TimedOutAfter(k, 0)
    /\ (calls[k].timeout = Num(0) /\ SettlesAtOnce(k) /\ k \in DOMAIN outcomes) =>
         DecidedByOperation(k)
    /\ (calls[k].timeout = Undefined /\ k \in DOMAIN outcomes) => DecidedByOperation(k)
    /\ (calls[k].timeout = Undefined /\ calls[k].kind = "never") => k \notin DOMAIN outcomes

\* an operation that would settle from a 0 ms timer loses against the
\* timeout of 0 ms
C8_Witness ==
  /\ Len(outcomes) >= 1
  /\ calls[1].timeout = Num(0) /\ calls[1].kind = "after" /\ calls[1].ms = 0
  /\ TimedOutAfter(1, 0)

\* C9: once go has been called with retries >= 0, the operation has been
\* invoked: the first invocation is made at the call, with the flag false,
\* whatever totalTimeoutMs is.
C9_FirstAttemptAlwaysStarts ==
  (goState # "notCalled" /\ Retries >= 0) =>
    /\ Len(calls) >= 1
    /\ calls[1].i = 0
    /\ calls[1].at = 0
    /\ ~calls[1].flag

C9_Witness ==
  /\ options.totalTimeoutMs = Num(0)
  /\ Retries = 2
  /\ totalFired /\ fired.at = 0
  /\ Len(calls) = 1 /\ calls[1].at = 0

DelaysOf(delay) == IF delay = NoDelay THEN {0} ELSE DelayChoices(delay)

\* C11: with a delay configured, retries = r >= 0, no total timeout and
\* every attempt failing, a delay separates each attempt from the next (the
\* next invocation is made one delay after the failure is known), exactly
\* r delays have been started when go returns after r+1 invocations, and go
\* returns at the clock value at which the final failure is known.
C11_DelaysBetweenAttempts ==
  (/\ goState # "notCalled" /\ options.delay # NoDelay /\ Retries >= 0
   /\ NoTotalTimeout /\ AllObservedFailed)
    => /\ \A k \in 1..(Len(calls) - 1) :
            (calls[k + 1].at - outcomes[k].at) \in DelayChoices(options.delay)
       /\ delays = IF pc = "awaitDelay" THEN Len(calls) ELSE Len(calls) - 1
       /\ Returned => /\ delays = Retries
                      /\ Len(calls) = Retries + 1
                      /\ Len(outcomes) = Retries + 1
                      /\ returnedAt = outcomes[Retries + 1].at
                      /\ \A t \in timers : t.kind # "delay"

\* three attempts rejected at once, separated by two delays of MaxDelayMs
C11_Witness ==
  /\ Returned /\ Retries = 2 /\ NoTotalTimeout /\ AllObservedFailed
  /\ options.delay = StaticDelay(MaxDelayMs)
  /\ \A n \in DOMAIN calls : calls[n].kind = "rejected"
  /\ delays = 2 /\ Len(calls) = 3
  /\ returnedAt = 2 * MaxDelayMs

\* C12: a delay is started only after a failed attempt that is not the
\* final one (and that was observed before the total timeout fired), once
\* for each: the first invocation is made at the call, and once an attempt
\* has succeeded go has returned at that very clock value, with no delay
\* started after it or pending.
C12_DelayOnlyBeforeRetry ==
  (options.present /\ Retries >= 0 /\ goState # "notCalled") =>
    /\ calls[1].at = 0
    /\ options.delay # NoDelay =>
         delays = Cardinality({k \in DOMAIN outcomes : Reportable(k)})
    /\ options.delay = NoDelay => delays = 0
    /\ \A k \in DOMAIN outcomes :
         (outcomes[k].res.success /\ ~outcomes[k].afterTotal) =>
           /\ Returned
           /\ returnedAt = outcomes[k].at
           /\ delays = IF options.delay = NoDelay THEN 0 ELSE k - 1
           /\ \A t \in timers : t.kind # "delay"

\* a delay is configured and the first attempt succeeds after MaxOpMs
C12_Witness ==
  /\ options.delay = StaticDelay(MaxDelayMs) /\ Retries = 2
  /\ Returned /\ result = success(ResolvedValue(1))
  /\ calls[1].kind = "after" /\ calls[1].ms = MaxOpMs
  /\ returnedAt = MaxOpMs
  /\ delays = 0

\* C13: when the total-timeout timer fires while makeAttempts waits for a
\* delay, go returns the "Full timeout exceeded" failure at that clock
\* value, the delay timer is cancelled, makeAttempts has run to its end and
\* the operation is never invoked again.
C13_DelayAbandoned ==
  (totalFired /\ fired.pc = "awaitDelay") =>
    /\ Returned
    /\ result = FullTimeoutResult
    /\ returnedAt = fired.at
    /\ \A t \in timers : t.kind # "delay"
    /\ pc = "returned"
    /\ Len(calls) = fired.calls
    /\ Len(calls) <= Retries

\* the timer fires during the first delay, before the delay is over
C13_Witness ==
  /\ totalFired /\ fired.pc = "awaitDelay"
  /\ options.delay = StaticDelay(MaxDelayMs)
  /\ Retries = 2 /\ Len(calls) = 1 /\ delays = 1
  /\ outcomes[1].at + MaxDelayMs > fired.at
  /\ Returned

\* C14: for every behaviour of the operation and every configuration with
\* retries >= 0, the promise returned by go never rejects, and what go
\* returns is a Result (a failure Result on every failure path).
C14_GoNeverRejects ==
  Retries >= 0 =>
    /\ goState # "rejected"
    /\ Returned => IsResult(result)

\* the run went on after the observer call for the attempt with index idx: a
\* delay was started or the retry was made, unless the total timeout ended
\* the run
WentOnAfter(idx) ==
  \/ pc = "awaitDelay" /\ i = idx
  \/ Len(calls) > idx + 1
  \/ totalFired

\* C15: with an observer that throws on every call (whatever it throws) and
\* retries >= 0, go does not reject, every observer call is followed by the
\* delay or retry that follows it when the observer returns, and go returns
\* what it returns then: the first success, or the failure of attempt
\* retries + 1.
C15_ThrowingObserverHarmless ==
  (observer \in {"throws", "throwsSymbol"} /\ fnThrows = "string" /\ Retries >= 0) =>
    /\ goState # "rejected"
    /\ \A c \in DOMAIN observerCalls : WentOnAfter(observerCalls[c].i)
    /\ (Returned /\ ~totalFired) =>
         /\ result = outcomes[Len(outcomes)].res
         /\ IsSuccess(result) \/ Len(calls) = Retries + 1

\* an observer that throws a string is harmless: the Symbol is what breaks
\* the property above
ThrownStringIsHarmless == observer = "throws" => C15_ThrowingObserverHarmless

\* C16: with an async observer and retries >= 0, go does not wait for the
\* observer: each retry is made one configured delay (none without a delay)
\* after the failure is known, go returns as soon as makeAttempts has ended,
\* at the clock value of the last outcome; and every observer call stays
\* pending until MaxObserverMs after it was made and then completes, also
\* after go has returned.
C16_ObserverNotAwaited ==
  (observer = "async" /\ Retries >= 0) =>
    /\ \A k \in 1..(Len(calls) - 1) :
         (calls[k + 1].at - outcomes[k].at) \in DelaysOf(options.delay)
    /\ pc = "returned" => Returned
    /\ (Returned /\ ~totalFired) => returnedAt = outcomes[Len(outcomes)].at
    /\ \A c \in DOMAIN observerCalls :
         IF c \in observerDone
         THEN /\ now >= observerCalls[c].at + MaxObserverMs
              /\ \A t \in timers : ~(t.kind = "observer" /\ t.n = c)
         ELSE \E t \in timers :
                /\ t.kind = "observer" /\ t.n = c
                /\ t.deadline = observerCalls[c].at + MaxObserverMs

\* two observer calls were pending when go returned and have completed since
C16_Witness ==
  /\ observer = "async" /\ Retries = 2
  /\ Returned /\ ~totalFired
  /\ Len(observerCalls) = 2
  /\ observerDone = {1, 2}
  /\ \A c \in observerDone : observerCalls[c].at + MaxObserverMs > returnedAt

\* C17: with retries >= 0, what go has returned is the "Full timeout
\* exceeded" failure when the total-timeout timer has fired, and otherwise
\* the outcome of the last attempt made, which is a success or else the
\* failure of attempt retries + 1, all attempts having failed.  It is never
\* null, and never the failure of the operation in an earlier attempt.
C17_ReturnValue ==
  (Returned /\ Retries >= 0) =>
    /\ result # Null
    /\ IsResult(result)
    /\ IF totalFired
       THEN /\ result = FullTimeoutResult
            /\ \A k \in DOMAIN outcomes : result # outcomes[k].res
       ELSE /\ Len(outcomes) >= 1
            /\ result = outcomes[Len(outcomes)].res
            /\ IsFailure(result) => Len(outcomes) = Retries + 1 /\ AllObservedFailed
            /\ \A k \in 1..(Len(outcomes) - 1) :
                 /\ ~outcomes[k].res.success
                 /\ ~FailsWith(outcomes[k].res, "Operation timed out") =>
                      result # outcomes[k].res

\* a total timeout is configured and three attempts fail before it fires
C17_Witness ==
  /\ Returned /\ ~totalFired /\ Retries = 2
  /\ options.totalTimeoutMs = Num(MaxTotalTimeoutMs)
  /\ Len(outcomes) = 3
  /\ result = fail(RejectedValue(3))
  /\ lastFailedAttemptResult = result

\* an options object with no field set, and one that only sets retries to 0
EmptyOptions == [NoOptions EXCEPT !.present = TRUE]
ZeroRetries == [EmptyOptions EXCEPT !.retries = Num(0)]

\* C18: go called without options, with an empty options object or with
\* retries = 0 invokes the operation once, at the call and without a
\* timeout, never a second time, and returns when the operation settles,
\* with success of the resolved value or the normalized failure; also with
\* other fields set, retries = 0 means one invocation.
C18_SingleAttempt ==
  /\ (goState # "notCalled" /\ options \in {NoOptions, EmptyOptions, ZeroRetries}) =>
       /\ Len(calls) = 1
       /\ calls[1].at = 0
       /\ calls[1].timeout = Undefined
       /\ timers = {} \/ \E t \in timers : timers = {t} /\ t.kind = "op" /\ t.n = 1
       /\ Returned <=> Len(outcomes) = 1
       /\ Returned =>
            /\ DecidedByOperation(1)
            /\ result = outcomes[1].res
            /\ returnedAt = calls[1].ms
       /\ calls[1].kind = "never" => ~Returned
  /\ (goState # "notCalled" /\ options.retries \in {Undefined, Num(0)}) => Len(calls) = 1

\* an empty options object and an operation that rejects after MaxOpMs
C18_Witness ==
  /\ options = EmptyOptions
  /\ Returned
  /\ Len(calls) = 1 /\ calls[1].kind = "after" /\ calls[1].ms = MaxOpMs
  /\ result = fail(RejectedValue(1))
  /\ returnedAt = MaxOpMs

\* the failure Result r carries the thrown value v: v itself when v is an
\* Error instance, otherwise a GoWrappedError with v as its reason
CarriesThrown(r, v) ==
  /\ IsFailure(r)
  /\ InstanceOfError(r.error)
  /\ IF InstanceOfError(v) THEN r.error = v
     ELSE /\ r.error.t = "GoWrappedError"
          /\ r.error.reason = v

\* C19: for every value v thrown by the operation, normalization produces
\* a failure Result whose error is an Error instance: v itself when v is an
\* Error instance, otherwise a GoWrappedError whose reason is v and whose
\* message is the string conversion of v.
C19_NormalizationKeepsThrown ==
  (syncFn # NoResult /\ syncFn.kind = "throws") =>
    /\ CarriesThrown(syncRes, syncFn.v)
    /\ ~InstanceOfError(syncFn.v) => syncRes.error.message = StringOf(syncFn.v)
    /\ syncFn.v = Undefined => syncRes.error.message = "undefined"
    /\ syncFn.v = Num(MaxNum) => syncRes.error.message = NatStr(MaxNum)
    /\ syncFn.v = Str("string-error") => syncRes.error.message = "string-error"

\* C20: goSync does not throw; for an operation that returns x it returns
\* success with x, and for one that throws v a failure whose error is v
\* itself when v is an Error instance and otherwise a wrapper with reason v.
C20_GoSyncNeverThrows ==
  syncFn # NoResult =>
    /\ ~IsThrow(syncRes)
    /\ syncFn.kind = "returns" => syncRes = success(syncFn.v)
    /\ syncFn.kind = "throws" => CarriesThrown(syncRes, syncFn.v)

\* the two properties above, for the values that have a string conversion
ConvertibleIsNormalized ==
  (syncFn # NoResult /\ syncFn.v # Symbol) =>
    C19_NormalizationKeepsThrown /\ C20_GoSyncNeverThrows

\* exactly one branch of the Result r is meaningful
OneBranch(r) ==
  IF r.success THEN r.error = Undefined
  ELSE r.data = Undefined /\ r.error # Undefined /\ InstanceOfError(r.error)

\* the Results held by the program: what go returned, the outcomes of the
\* attempts, the arguments of the observer, the last failure, and what
\* goSync, success and fail returned
ResultsProduced ==
  {r \in {result, goRes, lastFailedAttemptResult, syncRes, apiRet} : IsResult(r)}
    \cup {outcomes[k].res : k \in DOMAIN outcomes}
    \cup {observerCalls[c].arg : c \in DOMAIN observerCalls}

\* C21: every Result produced by success, fail, goSync or go has one
\* meaningful branch: error is undefined when success is true; data is
\* undefined and error is an Error instance when success is false.
C21_OneMeaningfulBranch == \A r \in ResultsProduced : OneBranch(r)

\* go has returned a failure after a success-free run with three outcomes
C21_Witness ==
  /\ Returned /\ IsFailure(result) /\ Len(outcomes) = 3
  /\ result.data = Undefined /\ result.error = RejectedValue(3)
  /\ Cardinality(ResultsProduced) >= 3

\* C22: assertGoSuccess applied to a failure Result throws the error of
\* that Result itself; applied to a success Result it throws nothing.
C22_AssertGoSuccess ==
  (apiCall # NoResult /\ apiCall.fn = "assertGoSuccess") =>
    IF apiCall.arg.success THEN apiRet = Undefined
    ELSE IsThrow(apiRet) /\ apiRet.threw = apiCall.arg.error

\* the error thrown is the GoWrappedError the Result carried, reason included
C22_Witness ==
  /\ apiCall = Call("assertGoSuccess", fail(GoWrappedError(Str("string-error"))))
  /\ apiRet = Throw(GoWrappedError(Str("string-error")))
  /\ apiRet.threw.reason = Str("string-error")

\* C23: assertGoError applied to a success Result throws a new Error with
\* the message "Assertion failed. Expected error, but no error was thrown";
\* applied to a failure Result it throws nothing.
C23_AssertGoError ==
  (apiCall # NoResult /\ apiCall.fn = "assertGoError") =>
    IF apiCall.arg.success
    THEN /\ IsThrow(apiRet)
         /\ apiRet.threw.t = "Error"
         /\ apiRet.threw.message = "Assertion failed. Expected error, but no error was thrown"
    ELSE apiRet = Undefined

\* a success whose data is an Error instance is still a success
C23_Witness ==
  /\ apiCall = Call("assertGoError", success(NewError("a")))
  /\ IsThrow(apiRet)
  /\ apiRet.threw # NewError("a")

\* C24: success(x) is tagged success and its data is x, for every value x;
\* fail(e) is tagged failure and its error is e, for every Error e.
C24_ConstructorsRoundTrip ==
  /\ (apiCall # NoResult /\ apiCall.fn = "success") =>
       apiRet.success /\ apiRet.data = apiCall.arg
  /\ (apiCall # NoResult /\ apiCall.fn = "fail") =>
       ~apiRet.success /\ apiRet.error = apiCall.arg

\* success(undefined): the data is undefined and the Result is a success
C24_Witness ==
  /\ apiCall = Call("success", Undefined)
  /\ apiRet.success /\ apiRet.data = Undefined

\* the timers one invocation of go creates
OwnTimers == {t \in timers : t.kind \in {"total", "attempt", "delay"}}

\* C25: once go has returned, by success, by exhaustion of the attempts or
\* by the total timeout, none of the timers it created (total timeout,
\* attempt timeout, delay) is pending.
C25_NoTimerPendingAtReturn == Returned => OwnTimers = {}

\* C26: when go has returned with the outcome of its attempts (a success,
\* or the last failure), the total-timeout timer is no longer pending and
\* it has not fired, however much time has passed since.
C26_TotalTimerCancelled ==
  Returned /\ result # FullTimeoutResult =>
    /\ ~totalFired
    /\ \A t \in timers : t.kind # "total"

\* go returned before the deadline of the total timeout, and the clock has
\* passed that deadline since
C26_Witness ==
  /\ Returned /\ result # FullTimeoutResult
  /\ options.totalTimeoutMs = Num(MaxTotalTimeoutMs)
  /\ returnedAt < MaxTotalTimeoutMs
  /\ now >= MaxTotalTimeoutMs

\* the timeout the array asks for the attempt with index idx: the element
\* idx, or the last element when the array is shorter
ElementFor(a, idx) == Num(a[IF idx < Len(a) THEN idx + 1 ELSE Len(a)])

\* C27: with attemptTimeoutMs an array, the attempt with index i runs with
\* the element i of the array as its timeout when i is below the length of
\* the array, and with the last element otherwise.
C27_ArrayTimeouts ==
  options.attemptTimeoutMs.t = "arr" =>
    \A k \in DOMAIN calls :
      calls[k].timeout = ElementFor(options.attemptTimeoutMs.a, calls[k].i)

\* C28: the operation of an attempt is invoked only when the outcome of
\* the attempt before it has been observed and the configured delay has
\* passed since; while an attempt is awaited no delay is pending, and at
\* most one attempt is without outcome.
C28_AttemptsSequential ==
  /\ Len(outcomes) <= Len(calls)
  /\ Len(calls) <= Len(outcomes) + 1
  /\ pc = "awaitAttempt" => \A t \in timers : t.kind # "delay"
  /\ \A k \in DOMAIN calls :
       /\ calls[k].i = k - 1
       /\ k > 1 =>
            /\ k - 1 \in DOMAIN outcomes
            /\ outcomes[k - 1].at <= calls[k].at
            /\ (calls[k].at - outcomes[k - 1].at) \in DelaysOf(options.delay)

\* the third attempt is pending, each attempt having started one static
\* delay after the failure of the attempt before it
C28_Witness ==
  /\ options.delay = StaticDelay(MaxDelayMs)
  /\ Len(calls) = 3 /\ Len(outcomes) = 2
  /\ pc = "awaitAttempt"
  /\ calls[3].at = outcomes[2].at + MaxDelayMs
  /\ outcomes[2].at > calls[2].at

\* C29: the k-th call of onAttemptError is made for the k-th attempt, with
\* exactly the failure observed for it, when that outcome is known and
\* before the delay that follows the attempt has started or the next
\* attempt has been invoked; the next attempt starts one delay later.
C29_ObserverOrder ==
  \A c \in DOMAIN observerCalls :
    LET call == observerCalls[c]
    IN /\ call.i = c - 1
       /\ c \in DOMAIN outcomes
       /\ IsFailure(call.arg)
       /\ call.arg = outcomes[c].res
       /\ call.at = outcomes[c].at
       /\ call.outcomes = c
       /\ call.calls = c
       /\ call.delays = (IF options.delay = NoDelay THEN 0 ELSE c - 1)
       /\ delays > call.delays => c + 1 \in DOMAIN calls \/ pc = "awaitDelay" \/ totalFired
       /\ c + 1 \in DOMAIN calls =>
            (calls[c + 1].at - call.at) \in DelaysOf(options.delay)

\* two failures have been reported, each followed by a delay, and the third
\* attempt has started
C29_Witness ==
  /\ options.onAttemptError /\ options.delay = StaticDelay(MaxDelayMs)
  /\ Len(observerCalls) = 2 /\ Len(calls) = 3 /\ delays = 2
  /\ observerCalls[1].arg # observerCalls[2].arg
  /\ calls[3].at = observerCalls[2].at + MaxDelayMs

\* the operation of the k-th attempt is still running although the attempt
\* has ended in "Operation timed out"
Abandoned(t) ==
  /\ t \in timers /\ t.kind = "op"
  /\ t.n \in DOMAIN outcomes
  /\ FailsWith(outcomes[t.n].res, "Operation timed out")

\* C30: when the operation of an attempt that timed out settles, the
\* outcomes recorded for the attempts, the attempt counter, the pending
\* attempt, the invocations, the observer calls, the delays and the result
\* of go all stay as they are.
C30_LateSettlementIgnored ==
  [][(\E t \in timers : Abandoned(t) /\ t \notin timers') =>
       UNCHANGED <<outcomes, i, pc, goRes, curOp, lastFailedAttemptResult, calls,
                   observerCalls, delays, goState, result, returnedAt,
                   fullTimeoutExceeded>>]_vars

\* the first attempt timed out, the second succeeded and go returned that
\* success; the operation of the first attempt has settled since
C30_Witness ==
  /\ Returned /\ result = success(ResolvedValue(2))
  /\ Len(outcomes) = 2
  /\ FailsWith(outcomes[1].res, "Operation timed out")
  /\ calls[1].kind = "after"
  /\ returnedAt < calls[1].at + calls[1].ms
  /\ now >= calls[1].at + calls[1].ms
  /\ \A t \in timers : t.kind # "op"

\* C31: the total-timeout timer is the one armed by the call of go: while
\* pending its deadline is totalTimeoutMs after the call, whatever attempts
\* and delays have come since; it fires at that clock value, and no
\* attempt is started later than that or once it has fired.
C31_TotalTimerArmedOnce ==
  options.totalTimeoutMs # Undefined =>
    LET T == options.totalTimeoutMs.v
    IN /\ \A t \in timers : t.kind = "total" => t.deadline = T /\ t.seq = 0
       /\ \A t, u \in timers : t.kind = "total" /\ u.kind = "total" => t = u
       /\ totalFired => fired.at = T /\ Len(calls) = fired.calls
       /\ \A k \in DOMAIN calls : calls[k].at <= T /\ ~calls[k].flag

\* an attempt and a delay have passed, the second attempt started later
\* than the call, and the timer fired at the deadline counted from the call
C31_Witness ==
  /\ options.totalTimeoutMs = Num(MaxTotalTimeoutMs)
  /\ totalFired /\ fired.at = MaxTotalTimeoutMs
  /\ Len(calls) >= 2 /\ delays >= 1
  /\ calls[2].at > 0

\* C32: a per-attempt timeout timer is pending only for the attempt whose
\* race has not settled: once an attempt has an outcome, because its
\* operation resolved, rejected or threw, its timer is gone.
C32_AttemptTimerCancelled ==
  \A t \in timers :
    t.kind = "attempt" =>
      /\ pc = "awaitAttempt" /\ goRes = NoResult
      /\ t.n = curOp
      /\ t.n \notin DOMAIN outcomes

\* two attempts with a timeout were decided by their operations, one
\* rejecting and one resolving, and the clock has passed the deadline of
\* the first timer
C32_Witness ==
  /\ Len(outcomes) = 2
  /\ \A k \in 1..2 : calls[k].timeout = Num(MaxAttemptTimeoutMs) /\ calls[k].kind = "after"
                        /\ calls[k].ms < MaxAttemptTimeoutMs
  /\ outcomes[1].res = fail(RejectedValue(1))
  /\ outcomes[2].res = success(ResolvedValue(2))
  /\ now >= calls[1].at + MaxAttemptTimeoutMs
  /\ \A t \in timers : t.kind # "attempt"

\* C33: with retries = r >= 0 the operation has been invoked at most r+1
\* times and the observer at most r times, and fewer times than the
\* operation, in every state after the call of go.
C33_InvocationBounds ==
  goState # "notCalled" /\ Retries >= 0 =>
    /\ Len(calls) <= Retries + 1
    /\ Len(observerCalls) <= Retries
    /\ Len(observerCalls) < Len(calls)

\* C33 as amended: with retries = r >= 0 the operation has been invoked at
\* most r+1 times and the observer at most r times and never more often
\* than the operation; the observer has been called fewer times than the
\* operation once go has returned the outcome of its attempts.
C33_InvocationBoundsAmended ==
  goState # "notCalled" /\ Retries >= 0 =>
    /\ Len(calls) <= Retries + 1
    /\ Len(observerCalls) <= Retries
    /\ Len(observerCalls) <= Len(calls)
    /\ Returned /\ ~totalFired => Len(observerCalls) < Len(calls)

\* the delay after the second reported failure is pending: two invocations
\* and two observer calls with retries = 2
C33_Witness ==
  /\ Retries = 2 /\ options.onAttemptError
  /\ pc = "awaitDelay"
  /\ Len(calls) = 2 /\ Len(observerCalls) = 2

\* C34: with totalTimeoutMs configured, a pending go eventually returns,
\* also when the operation never settles and no attempt timeout is
\* configured.
C34_TotalTimeoutTerminates ==
  (goState = "pending" /\ options.totalTimeoutMs # Undefined) ~> Returned

\* go returned by the total timeout while its only attempt, without a
\* timeout of its own, waits for an operation that never settles
C34_Witness ==
  /\ Returned /\ FailsWith(result, "Full timeout exceeded")
  /\ options.totalTimeoutMs = Num(MaxTotalTimeoutMs)
  /\ NoAttemptTimeout
  /\ Len(calls) = 1 /\ calls[1].kind = "never"
  /\ pc = "awaitAttempt" /\ goRes = NoResult

\* the pending attempt has no timeout and its operation never settles
StuckAttempt ==
  /\ goState = "pending"
  /\ pc = "awaitAttempt" /\ goRes = NoResult
  /\ calls[curOp].kind = "never"
  /\ calls[curOp].timeout = Undefined

\* C35: go eventually returns unless an attempt without a timeout waits
\* for an operation that never settles, and it has made at most retries+1
\* attempts; with neither timeout configured, a go whose attempt waits for
\* an operation that never settles stays pending for ever.
C35_Termination ==
  /\ (goState = "pending") ~> (Returned \/ StuckAttempt)
  /\ [](Returned /\ Retries >= 0 => Len(calls) <= Retries + 1)
  /\ [][StuckAttempt /\ NoTotalTimeout => StuckAttempt']_vars

\* without a total timeout, two attempts timed out, a delay followed each,
\* and go returned after the third attempt
C35_Witness ==
  /\ NoTotalTimeout /\ Retries = 2
  /\ options.attemptTimeoutMs = Num(MaxAttemptTimeoutMs)
  /\ options.delay = StaticDelay(MaxDelayMs)
  /\ Returned /\ Len(calls) = 3
  /\ \A k \in 1..3 : calls[k].kind = "never"
  /\ FailsWith(result, "Operation timed out")

\* C37: for every numeric retries value, negative ones included, a go that
\* has returned has invoked the operation at least once and has returned a
\* Result, not null or undefined.
C37_AtLeastOneAttempt ==
  Returned /\ options.retries.t = "num" =>
    /\ Len(calls) >= 1
    /\ IsResult(result)

\* an attempt ended by the attempt timeout (its operation did not settle
\* in time)
TimedOut(k) ==
  /\ calls[k].timeout # Undefined
  /\ outcomes[k].at = calls[k].at + calls[k].timeout.v
  /\ SettlesAfter(k, calls[k].timeout.v)

\* C38: an attempt ended by its timeout fails with a GoWrappedError whose
\* reason is the string 'Operation timed out' (and whose message is that
\* string); a go ended by the total timeout fails with a plain Error with
\* message "Full timeout exceeded", which has no reason.
C38_TimeoutFailureKinds ==
  /\ \A k \in DOMAIN outcomes :
       /\ TimedOut(k) =>
            outcomes[k].res = fail([t |-> "GoWrappedError", message |-> "Operation timed out",
                                    reason |-> Str("Operation timed out")])
       /\ FailsWith(outcomes[k].res, "Operation timed out") =>
            /\ outcomes[k].res.error.t = "GoWrappedError"
            /\ outcomes[k].res.error.reason = Str("Operation timed out")
  /\ FailsWith(result, "Full timeout exceeded") =>
       /\ result.error = NewError("Full timeout exceeded")
       /\ "reason" \notin DOMAIN result.error

\* one run with both failures: the first attempt timed out, and the total
\* timeout ended go during a later attempt
C38_Witness ==
  /\ Len(outcomes) >= 1 /\ TimedOut(1)
  /\ FailsWith(outcomes[1].res, "Operation timed out")
  /\ Returned /\ totalFired
  /\ result.error = NewError("Full timeout exceeded")

\* what is known of one invocation of go: its state and result, its
\* invocations of the operation and their outcomes, and its clock values
First ==
  [goState |-> goState, result |-> result, calls |-> calls, outcomes |-> outcomes,
   fired |-> totalFired, calledAt |-> 0, returnedAt |-> returnedAt]

\* the outcome of the k-th attempt of invocation v is the one its own
\* operation and its own timer give: "Operation timed out" at the timeout
\* after its start, or what its operation did, when it did it
OwnOutcome(v, k) ==
  LET c == v.calls[k]
      o == v.outcomes[k]
      timedOut == /\ c.timeout # Undefined
                  /\ o.at = c.at + c.timeout.v
                  /\ o.res = createGoError(TimeoutRejection)
      byOperation ==
        /\ c.kind # "never"
        /\ o.at = c.at + c.ms
        /\ o.res \in (CASE c.kind = "resolved" -> {success(ResolvedValue(k))}
                        [] c.kind = "rejected" -> {fail(RejectedValue(k))}
                        [] c.kind = "throw" -> {createGoError(ThrownValue(k))}
                        [] OTHER -> {success(ResolvedValue(k)), fail(RejectedValue(k))})
  IN /\ timedOut \/ byOperation
     /\ c.timeout = Undefined \/ c.ms < c.timeout.v => c.kind = "never" \/ byOperation
     /\ c.kind = "never" \/ (c.timeout # Undefined /\ c.ms > c.timeout.v) => timedOut

\* invocation v has run as an invocation that runs alone: its attempts,
\* their number and its result follow from its own options, the behaviour
\* of its own operation and its own timers
RunsAsAlone(v) ==
  v.goState # "notCalled" =>
    LET n == Len(v.outcomes)
        done == n >= 1 /\ (v.outcomes[n].res.success \/ n = Retries + 1)
    IN /\ Len(v.calls) >= 1 /\ Len(v.calls) <= Retries + 1
       /\ n <= Len(v.calls) /\ Len(v.calls) <= n + 1
       /\ v.calls[1].at = v.calledAt
       /\ \A k \in DOMAIN v.outcomes : OwnOutcome(v, k)
       /\ \A k \in 2..Len(v.calls) :
            /\ ~v.outcomes[k - 1].res.success
            /\ (v.calls[k].at - v.outcomes[k - 1].at) \in DelaysOf(options.delay)
            /\ v.calls[k].timeout = options.attemptTimeoutMs
       /\ v.fired =>
            /\ options.totalTimeoutMs # Undefined
            /\ v.goState = "returned"
            /\ v.result = FullTimeoutResult
            /\ v.returnedAt = v.calledAt + options.totalTimeoutMs.v
       /\ ~v.fired =>
            /\ v.goState = "returned" <=> done
            /\ done => v.result = v.outcomes[n].res /\ v.returnedAt = v.outcomes[n].at

\* C36: of two invocations of go that run concurrently, each makes the
\* attempts and returns the result that its own options, its own operation
\* behaviour and its own timers give, as when it runs alone, whatever the
\* other invocation does in between.
C36_NoInterference == RunsAsAlone(First) /\ RunsAsAlone(other)

\* the second invocation was called while the first was pending; the first
\* was ended by its total timeout, the second then returned the success of
\* its retry
C36_Witness ==
  /\ Returned /\ totalFired /\ result = FullTimeoutResult
  /\ other.calledAt > 0 /\ other.calledAt < returnedAt
  /\ other.goState = "returned" /\ ~other.fired
  /\ Len(other.calls) = 2
  /\ other.result = success(ResolvedValue(2))
  /\ other.returnedAt >= returnedAt
====
